---- MODULE Spec2Model ----
(***************************************************************************)
(* Model of aStarSearch (src/Graph.ts) of the Shrdlite planner: the open   *)
(* and closed lists, the selection of the least-f entry, the expansion of  *)
(* its outgoing edges with the goal test on each successor, the            *)
(* reconstruction of the path through the closed list, and the loop test   *)
(* on the open list and the wall clock.                                    *)
(*                                                                         *)
(* One action models one evaluation of the while condition together with   *)
(* the loop body (or the throw) that follows it.  The graph, the           *)
(* heuristic, the goal predicate and the timeout are inputs fixed by Init. *)
(*                                                                         *)
(* The module also models two functions of the Interpreter: interpret      *)
(* (src/Interpreter.ts), one action for each element its forEach visits    *)
(* and one for the return or throw that ends it, and isOkSupport           *)
(* (src/Graph.ts), an operator applied by one action.                      *)
(***************************************************************************)
EXTENDS Integers, Sequences, FiniteSets, TLC

\* ------------------------------------------------------------------------
\* Bounds of the model
\* ------------------------------------------------------------------------
NumNodes == 4        \* nodes are 1..NumNodes
MaxElapsed == 1      \* the clock reads 0..MaxElapsed milliseconds
MaxParses == 3       \* interpret is given at most MaxParses parses
MaxElements == 2     \* getAllLists is given at most MaxElements elements
MaxLeng == 3         \* getAllLists is asked for lengths 0..MaxLeng

\* ------------------------------------------------------------------------
\* Values of the program
\* ------------------------------------------------------------------------
\* The value `undefined`, pushed as the parent of the start entry.
Undefined == 0

\* timeout*1000: the timeout is given in seconds, the clock in milliseconds.
MsPerSecond == 1000

\* The message of the only throw statement of aStarSearch.
OpenListEmptyMessage == "Open list empty but goal not reached."

\* JavaScript truthiness of a Node-or-undefined value: while(next).
Truthy(n) == n # Undefined /\ n # 0

\* The start node handed to aStarSearch.
start == 1

VARIABLES
    succ,      \* the graph: succ[n] is the set of targets of n's edges
    edgeCost,  \* the graph: the cost carried by its edges
    h,         \* the heuristics function, node -> number
    goal,      \* the goal predicate, as the set of nodes it holds for
    timeout,   \* the timeout in seconds
    open,      \* open list: sequence of <<node, g, parent>>
    closed,    \* closed list: sequence of <<node, g, parent>>
    elapsed,   \* Date.now()-begin as last read by the loop test
    q,         \* the entry last removed from the open list
    pc,        \* "running", "returned", "thrown" or "diverged"
    result,    \* the SearchResult returned, [path, cost]
    thrown     \* the value thrown

\* Node values.  They are truthy (objects, or non-zero numbers): the model
\* keeps `undefined` apart from every node.
Nodes == DOMAIN succ

VARIABLES
    parses,           \* interpret: the list of parses it is given
    command,          \* interpret: what interpretCommand does on each parse
    interpretations,  \* interpret: the local list of the same name
    errors,           \* interpret: the local list of the same name
    interpreted,      \* interpret: "idle", "forEach", "returned", "thrown"
    outcome,          \* interpret: the value returned or thrown
    parsesWithInterpretations,  \* interpret of Graph.ts: the local list
    o1,               \* isOkSupport: the object to be supported
    o2,               \* isOkSupport: the object to support it
    support,          \* isOkSupport: the values returned so far
    rel,              \* isOkRelation: the relation asked for
    related,          \* isOkRelation: the values returned so far
    elements,         \* getAllLists: the list given to the outermost call
    leng,             \* getAllLists: the length given to the outermost call
    depth,            \* getAllLists: the number of recursive calls open
    allLists,         \* getAllLists: the value returned last
    listing           \* getAllLists: "idle", "calling", "returning",
                      \* "returned" or "overflow"

inputs == <<succ, edgeCost, h, goal, timeout>>
searchVars == <<succ, edgeCost, h, goal, timeout, open, closed, elapsed, q,
                pc, result, thrown>>
interpretVars == <<parses, command, interpretations, errors, interpreted,
                   outcome, parsesWithInterpretations>>
supportVars == <<o1, o2, support, rel, related>>
listVars == <<elements, leng, depth, allLists, listing>>
vars == <<searchVars, interpretVars, supportVars, listVars>>

NoResult == [path |-> <<>>, cost |-> -1]
NoEntry == <<Undefined, 0, Undefined>>
NotThrown == ""

\* ------------------------------------------------------------------------
\* The graph
\* ------------------------------------------------------------------------
RECURSIVE SortedSeq(_)
\* The elements of a set of numbers as an ascending sequence.
SortedSeq(S) ==
    IF S = {} THEN <<>>
    ELSE LET m == CHOOSE x \in S : \A y \in S : x <= y
         IN <<m>> \o SortedSeq(S \ {m})

\* graph.outgoingEdges(node): the edges leaving node, as Edge records, in
\* ascending order of their targets.
outgoingEdges(n) ==
    LET ts == SortedSeq(succ[n])
    IN [i \in 1..Len(ts) |-> [from |-> n, to |-> ts[i], cost |-> edgeCost]]

\* graph.compareNodes(a, b): a three-way comparison, 0 for the same node.
compareNodes(a, b) == IF a < b THEN -1 ELSE IF a > b THEN 1 ELSE 0

\* goal(n)
IsGoal(n) == n \in goal

\* heuristics(n)
heuristics(n) == h[n]

\* ------------------------------------------------------------------------
\* The loop test
\* ------------------------------------------------------------------------
\* The loop test with the bound on the open list off by one.
LoopCondOffByOne(op, t) == Len(op) > 1 /\ t <= timeout * MsPerSecond

\* open.length>0 && (Date.now()-begin)<=timeout*1000, t the clock reading.
LoopCond(op, t) == Len(op) > 0 /\ t <= timeout * MsPerSecond

\* ------------------------------------------------------------------------
\* Selection of the entry with the least f
\* ------------------------------------------------------------------------
\* f without the heuristics: the g alone.
FWithoutHeuristics(e) == e[2]

\* open[i][1]+heuristics(open[i][0])
F(e) == e[2] + heuristics(e[1])

RECURSIVE SelectFrom(_, _, _, _)
\* The for loop of lines 69-74 from position i on: index and minf so far.
SelectFrom(op, i, index, minf) ==
    IF i > Len(op) THEN index
    ELSE IF minf >= F(op[i])
         THEN SelectFrom(op, i + 1, i, F(op[i]))
         ELSE SelectFrom(op, i + 1, index, minf)

\* The selection with > for >= in line 70: the first of the entries with
\* the least f.
SelectIndexFirst(op) ==
    CHOOSE i \in 1..Len(op) :
        /\ \A j \in 1..Len(op) : F(op[i]) <= F(op[j])
        /\ \A j \in 1..(i - 1) : F(op[j]) > F(op[i])

\* The index of the entry that open.splice(index, 1) removes.
SelectIndex(op) == SelectFrom(op, 1, 1, F(op[1]))

\* open after open.splice(index): every entry from index on is removed.
SpliceToEnd(op, index) == SubSeq(op, 1, index - 1)

\* open after open.splice(index, 1)
Splice(op, index) ==
    [i \in 1..(Len(op) - 1) |-> IF i < index THEN op[i] ELSE op[i + 1]]

\* ------------------------------------------------------------------------
\* Expansion
\* ------------------------------------------------------------------------
\* The g of a successor with the edge to it not counted.
SuccessorGOfParent(qe, edge) == qe[2]

\* The g of a successor as the g of qe plus the cost the edge carries.
SuccessorGByCost(qe, edge) == qe[2] + edge.cost

\* The g given to every successor of qe, and the cost of a result found
\* from qe.
SuccessorG(qe, edge) == qe[2] + 1

\* Lines 104-108: next is on the open list with a g that is not higher.
OnOpenNotWorse(op, next, g) ==
    \E j \in 1..Len(op) : compareNodes(op[j][1], next) = 0 /\ op[j][2] <= g

\* The closed list check left out.
OnClosedNever(cl, next) == FALSE

\* The closed list check with its loop begun at j = 1.
OnClosedFromSecond(cl, next) ==
    \E j \in 2..Len(cl) : compareNodes(cl[j][1], next) = 0

\* Lines 110-116: next is on the closed list.
OnClosed(cl, next) ==
    \E j \in 1..Len(cl) : compareNodes(cl[j][1], next) = 0

\* Line 117: open.push([next, q[1]+1, q[0]])
PushOpen(op, qe, edge) == Append(op, <<edge.to, SuccessorG(qe, edge), qe[1]>>)

RECURSIVE ExpandFrom(_, _, _, _, _)
\* The loop over the edges of qe from edge i on.  Ends at the first edge
\* whose target satisfies the goal.
ExpandFrom(op, cl, qe, edges, i) ==
    IF i > Len(edges) THEN [found |-> FALSE, edge |-> 0, open |-> op]
    ELSE LET next == edges[i].to
         IN IF IsGoal(next)
            THEN [found |-> TRUE, edge |-> i, open |-> op]
            ELSE IF OnOpenNotWorse(op, next, SuccessorG(qe, edges[i]))
                    \/ OnClosed(cl, next)
                 THEN ExpandFrom(op, cl, qe, edges, i + 1)
                 ELSE ExpandFrom(PushOpen(op, qe, edges[i]), cl, qe, edges, i + 1)

\* ------------------------------------------------------------------------
\* Path reconstruction
\* ------------------------------------------------------------------------
\* Lines 88-93: the parent of the first closed entry whose node == next;
\* next itself when there is none.
ParentOf(cl, next) ==
    IF \E i \in 1..Len(cl) : cl[i][1] = next
    THEN LET i == CHOOSE k \in 1..Len(cl) :
                     cl[k][1] = next /\ \A m \in 1..(k - 1) : cl[m][1] # next
         IN cl[i][3]
    ELSE next

RECURSIVE Walk(_, _, _)
\* The while(next) loop: the nodes pushed on p, with ok = FALSE when the
\* loop has not ended after fuel pushes.
Walk(cl, next, fuel) ==
    IF ~Truthy(next) THEN [nodes |-> <<>>, ok |-> TRUE]
    ELSE IF fuel = 0 THEN [nodes |-> <<>>, ok |-> FALSE]
    ELSE LET rest == Walk(cl, ParentOf(cl, next), fuel - 1)
         IN [nodes |-> <<next>> \o rest.nodes, ok |-> rest.ok]

\* The path left in the order in which it was collected.
ReverseForgotten(s) == s

\* p.reverse()
Reverse(s) == [i \in 1..Len(s) |-> s[Len(s) + 1 - i]]

\* Lines 84-99: the result built when edge leads from qe to a goal node.
BuildResult(cl, qe, edge) ==
    LET w == Walk(cl, qe[3], Len(cl) + 1)
    IN [ok |-> w.ok,
        path |-> Reverse(<<edge.to, qe[1]>> \o w.nodes),
        cost |-> SuccessorG(qe, edge)]

\* ------------------------------------------------------------------------
\* Inputs
\* ------------------------------------------------------------------------
\* Date.now()-begin, in milliseconds, as the loop test can read it.
ClockReadings == 0..MaxElapsed

\* Timeouts in seconds: negative, zero, and one that no reading reaches.
Timeouts == {-1, 0, 1}
NeverExpires == timeout * MsPerSecond > MaxElapsed

\* The values of the heuristics and the costs of the edges.
HeuristicValues == {0, 1}
CostValues == {1, 2}

\* Forward edges lead one or two nodes ahead.
ForwardSteps == {1, 2}

\* Self loops and edges back to the start, among n nodes.
BackEdges(n) == {<<m, m>> : m \in 1..n} \cup {<<m, start>> : m \in 1..n}

\* The graphs of n nodes: any forward edges, and at most
\* one self loop or edge back to the start.
Graphs(n) ==
    { [m \in 1..n |->
          {k \in 1..n : k - m \in d[m]} \cup {b[2] : b \in {x \in back : x[1] = m}}] :
        d \in [1..n -> SUBSET ForwardSteps],
        back \in {{}} \cup {{b} : b \in BackEdges(n)} }

\* The heuristics on n nodes: zero but for one node.
Heuristics(n) ==
    { [m \in 1..n |-> IF m = b THEN v ELSE 0] : b \in 1..n, v \in HeuristicValues }

\* The goal predicates on n nodes: no node, or one node.
Goals(n) == {{}} \cup {{m} : m \in 1..n}

InitSearch ==
    /\ open = <<<<start, 0, Undefined>>>>
    /\ closed = <<>>
    /\ elapsed = 0
    /\ q = NoEntry
    /\ pc = "running"
    /\ result = NoResult
    /\ thrown = NotThrown

\* interpret is not called.
InterpretIdle ==
    /\ parses = <<>>
    /\ command = <<>>
    /\ interpretations = <<>>
    /\ errors = <<>>
    /\ interpreted = "idle"
    /\ outcome = <<>>
    /\ parsesWithInterpretations = <<>>

\* isOkSupport is not called.
SupportIdle ==
    /\ o1 = [form |-> "floor", size |-> "null"]
    /\ o2 = [form |-> "floor", size |-> "null"]
    /\ support = <<>>
    /\ rel = "ontop"
    /\ related = <<>>

\* getAllLists is not called.
ListsIdle ==
    /\ elements = <<>>
    /\ leng = 1
    /\ depth = 0
    /\ allLists = <<>>
    /\ listing = "idle"

\* The state after lines 61-64, for the graphs of n nodes.
InitOn(n) ==
    /\ succ \in Graphs(n)
    /\ edgeCost \in CostValues
    /\ h \in Heuristics(n)
    /\ goal \in Goals(n)
    /\ timeout \in Timeouts
    /\ InitSearch
    /\ InterpretIdle
    /\ SupportIdle
    /\ ListsIdle

Init == InitOn(NumNodes)

\* One node more, and a timeout that never expires.
InitWide == InitOn(NumNodes + 1) /\ NeverExpires

\* ------------------------------------------------------------------------
\* Actions
\* ------------------------------------------------------------------------
\* One iteration of the while loop: the loop test holds at clock reading t,
\* the least-f entry is removed and expanded; the search returns when a
\* successor satisfies the goal, and moves q to the closed list otherwise.
Iterate ==
    /\ pc = "running"
    /\ \E t \in ClockReadings :
        /\ t >= elapsed
        /\ LoopCond(open, t)
        /\ elapsed' = t
        /\ LET index == SelectIndex(open)
               qe == open[index]
               rest == Splice(open, index)
               edges == outgoingEdges(qe[1])
               x == ExpandFrom(rest, closed, qe, edges, 1)
               r == BuildResult(closed, qe, edges[x.edge])
           IN /\ q' = qe
              /\ IF x.found
                 THEN /\ open' = x.open
                      /\ closed' = closed
                      /\ IF r.ok
                         THEN /\ pc' = "returned"
                              /\ result' = [path |-> r.path, cost |-> r.cost]
                         ELSE /\ pc' = "diverged"
                              /\ result' = result
                 ELSE /\ open' = x.open
                      /\ closed' = Append(closed, qe)
                      /\ pc' = "running"
                      /\ result' = result
    /\ UNCHANGED <<inputs, thrown, interpretVars, supportVars, listVars>>

\* The loop ends by returning the path to the entry expanded last.
LoopExitBestEffort ==
    /\ pc = "running"
    /\ \E t \in ClockReadings :
        /\ t >= elapsed
        /\ ~LoopCond(open, t)
        /\ elapsed' = t
    /\ pc' = "returned"
    /\ result' = [path |-> Reverse(Walk(closed, q[1], Len(closed) + 1).nodes),
                  cost |-> q[2]]
    /\ UNCHANGED <<inputs, open, closed, q, thrown, interpretVars, supportVars, listVars>>

\* The loop test fails at clock reading t: line 121 throws.
LoopExit ==
    /\ pc = "running"
    /\ \E t \in ClockReadings :
        /\ t >= elapsed
        /\ ~LoopCond(open, t)
        /\ elapsed' = t
    /\ pc' = "thrown"
    /\ thrown' = OpenListEmptyMessage
    /\ UNCHANGED <<inputs, open, closed, q, result, interpretVars, supportVars, listVars>>

Next == Iterate \/ LoopExit

Spec == Init /\ [][Next]_vars

SpecWide == InitWide /\ [][Next]_vars

\* ------------------------------------------------------------------------
\* Interpreter.interpret (src/Interpreter.ts)
\* ------------------------------------------------------------------------
\* The value of errors[0] when errors is empty.
UndefinedError == "undefined"

\* The parses a list is made of, and the ways interpretCommand can end on
\* one of them: it returns an interpretation or throws an error.
ParseValues == {"take", "put", "move"}
CommandOutcomes ==
    {[throws |-> FALSE, value |-> i] : i \in {"holding", "ontop"}}
        \cup {[throws |-> TRUE, value |-> e] : e \in {"noObject", "unstable"}}

\* The lists of at most n elements of S.
SeqsUpTo(S, n) == UNION {[1..k -> S] : k \in 0..n}

\* aStarSearch is not called.
SearchIdle ==
    /\ succ = <<>>
    /\ edgeCost = 1
    /\ h = <<>>
    /\ goal = {}
    /\ timeout = 0
    /\ open = <<>>
    /\ closed = <<>>
    /\ elapsed = 0
    /\ q = NoEntry
    /\ pc = "idle"
    /\ result = NoResult
    /\ thrown = NotThrown

\* interpretCommand(result.parse, currentState)
interpretCommand(parse) == command[parse]

\* The parse result with its interpretation field assigned.
Augmented(parse) ==
    [parse |-> parse, interpretation |-> interpretCommand(parse).value]

\* errors[errors.length - 1]
LastError(errs) == IF Len(errs) > 0 THEN errs[Len(errs)] ELSE UndefinedError

\* errors[0]
FirstError(errs) == IF Len(errs) > 0 THEN errs[1] ELSE UndefinedError

\* The element forEach visits next: each element visited so far was pushed
\* on one of the two lists.
Visiting == Len(interpretations) + Len(errors) + 1

\* The state at the call, the two lists created empty.
InitInterpret ==
    /\ parses \in SeqsUpTo(ParseValues, MaxParses)
    /\ command \in [ParseValues -> CommandOutcomes]
    /\ interpretations = <<>>
    /\ errors = <<>>
    /\ interpreted = "forEach"
    /\ outcome = <<>>
    /\ parsesWithInterpretations = <<>>
    /\ SearchIdle
    /\ SupportIdle
    /\ ListsIdle

\* The callback of forEach on one element: try, or catch.
ForEachParse ==
    /\ interpreted = "forEach"
    /\ Visiting <= Len(parses)
    /\ LET parseresult == parses[Visiting]
       IN IF interpretCommand(parseresult).throws
          THEN /\ errors' = Append(errors, interpretCommand(parseresult).value)
               /\ interpretations' = interpretations
          ELSE /\ interpretations' = Append(interpretations, Augmented(parseresult))
               /\ errors' = errors
    /\ UNCHANGED <<parses, command, interpreted, outcome,
                   parsesWithInterpretations, searchVars, supportVars, listVars>>

\* forEach is over and interpretations is not empty: return it.
InterpretReturn ==
    /\ interpreted = "forEach"
    /\ Visiting > Len(parses)
    /\ Len(interpretations) # 0
    /\ interpreted' = "returned"
    /\ outcome' = interpretations
    /\ UNCHANGED <<parses, command, interpretations, errors,
                   parsesWithInterpretations, searchVars, supportVars, listVars>>

\* forEach is over and interpretations is empty: throw errors[0].
InterpretThrow ==
    /\ interpreted = "forEach"
    /\ Visiting > Len(parses)
    /\ Len(interpretations) = 0
    /\ interpreted' = "thrown"
    /\ outcome' = FirstError(errors)
    /\ UNCHANGED <<parses, command, interpretations, errors,
                   parsesWithInterpretations, searchVars, supportVars, listVars>>

NextInterpret == ForEachParse \/ InterpretReturn \/ InterpretThrow

SpecInterpret == InitInterpret /\ [][NextInterpret]_vars

\* ------------------------------------------------------------------------
\* Interpreter.interpret (src/Graph.ts)
\* ------------------------------------------------------------------------
\* What both texts thrown by verbalizeDifference begin with.
AmbiguityMessage == "Your statement is ambiguous."

\* verbalizeDifference(input): it throws its message for every input.
verbalizeDifference(input) == AmbiguityMessage

\* The test with an ambiguity taken to begin at three interpretations.
IsAmbiguousFromThree(ints) == Len(ints) > 2

\* interpretations.length > 1
IsAmbiguous(ints) == Len(ints) > 1

\* The callback of forEach on one element: try, with the push on
\* parsesWithInterpretations, or catch.
GraphForEachParse ==
    /\ interpreted = "forEach"
    /\ Visiting <= Len(parses)
    /\ LET parseresult == parses[Visiting]
       IN IF interpretCommand(parseresult).throws
          THEN /\ errors' = Append(errors, interpretCommand(parseresult).value)
               /\ interpretations' = interpretations
               /\ parsesWithInterpretations' = parsesWithInterpretations
          ELSE /\ interpretations' = Append(interpretations, Augmented(parseresult))
               /\ parsesWithInterpretations' =
                      Append(parsesWithInterpretations, parseresult)
               /\ errors' = errors
    /\ UNCHANGED <<parses, command, interpreted, outcome, searchVars,
                   supportVars, listVars>>

\* forEach is over with more than one interpretation: verbalizeDifference
\* throws.
GraphInterpretAmbiguous ==
    /\ interpreted = "forEach"
    /\ Visiting > Len(parses)
    /\ IsAmbiguous(interpretations)
    /\ interpreted' = "thrown"
    /\ outcome' = verbalizeDifference(parsesWithInterpretations)
    /\ UNCHANGED <<parses, command, interpretations, errors,
                   parsesWithInterpretations, searchVars, supportVars, listVars>>

\* forEach is over, verbalizeDifference was not called, and interpretations
\* is not empty: return it.
GraphInterpretReturn ==
    /\ interpreted = "forEach"
    /\ Visiting > Len(parses)
    /\ ~IsAmbiguous(interpretations)
    /\ Len(interpretations) # 0
    /\ interpreted' = "returned"
    /\ outcome' = interpretations
    /\ UNCHANGED <<parses, command, interpretations, errors,
                   parsesWithInterpretations, searchVars, supportVars, listVars>>

\* forEach is over and interpretations is empty: throw errors[0].
GraphInterpretThrow ==
    /\ interpreted = "forEach"
    /\ Visiting > Len(parses)
    /\ ~IsAmbiguous(interpretations)
    /\ Len(interpretations) = 0
    /\ interpreted' = "thrown"
    /\ outcome' = FirstError(errors)
    /\ UNCHANGED <<parses, command, interpretations, errors,
                   parsesWithInterpretations, searchVars, supportVars, listVars>>

NextGraphInterpret ==
    \/ GraphForEachParse
    \/ GraphInterpretAmbiguous
    \/ GraphInterpretReturn
    \/ GraphInterpretThrow

SpecGraphInterpret == InitInterpret /\ [][NextGraphInterpret]_vars

\* ------------------------------------------------------------------------
\* Interpreter.getAllLists (src/Graph.ts)
\* ------------------------------------------------------------------------
\* The identifiers a list is made of.
ElementValues == {"a", "b", "c"}

\* The number of recursive calls the call stack has room for: more than a
\* call with a length of 1..MaxLeng opens.
StackLimit == MaxLeng + 1

\* Lines 633-638: one list of one element for each element.
Singletons(els) == [i \in 1..Len(els) |-> <<els[i]>>]

\* Lines 641-651: each element put before each list of allSublists, the
\* elements in the outer loop and the lists in the inner one.
Prepended(els, allSublists) ==
    [k \in 1..(Len(els) * Len(allSublists)) |->
        LET i == ((k - 1) \div Len(allSublists)) + 1
            j == ((k - 1) % Len(allSublists)) + 1
        IN <<els[i]>> \o allSublists[j]]

\* The value of the parameter leng in the innermost call open.
CurrentLeng == leng - depth

\* The state at the outermost call.
InitLists ==
    /\ elements \in SeqsUpTo(ElementValues, MaxElements)
    /\ leng \in 0..MaxLeng
    /\ depth = 0
    /\ allLists = <<>>
    /\ listing = "calling"
    /\ SearchIdle
    /\ InterpretIdle
    /\ SupportIdle

\* The innermost call has leng == 1: it returns the lists of one element.
ListsBase ==
    /\ listing = "calling"
    /\ CurrentLeng = 1
    /\ allLists' = Singletons(elements)
    /\ listing' = IF depth = 0 THEN "returned" ELSE "returning"
    /\ UNCHANGED <<elements, leng, depth, searchVars, interpretVars, supportVars>>

\* The innermost call has another leng: it calls getAllLists with leng - 1.
ListsRecurse ==
    /\ listing = "calling"
    /\ CurrentLeng # 1
    /\ depth < StackLimit
    /\ depth' = depth + 1
    /\ UNCHANGED <<elements, leng, allLists, listing, searchVars, interpretVars,
                   supportVars>>

\* The recursive call finds no room on the call stack: a RangeError ends
\* the outermost call.
ListsOverflow ==
    /\ listing = "calling"
    /\ CurrentLeng # 1
    /\ depth >= StackLimit
    /\ listing' = "overflow"
    /\ UNCHANGED <<elements, leng, depth, allLists, searchVars, interpretVars,
                   supportVars>>

\* A recursive call has returned allSublists to its caller, which builds
\* and returns its allLists.
ListsReturn ==
    /\ listing = "returning"
    /\ depth > 0
    /\ allLists' = Prepended(elements, allLists)
    /\ depth' = depth - 1
    /\ listing' = IF depth = 1 THEN "returned" ELSE "returning"
    /\ UNCHANGED <<elements, leng, searchVars, interpretVars, supportVars>>

NextLists == ListsBase \/ ListsRecurse \/ ListsOverflow \/ ListsReturn

SpecLists == InitLists /\ [][NextLists]_vars

\* ------------------------------------------------------------------------
\* Interpreter.isOkSupport (src/Graph.ts)
\* ------------------------------------------------------------------------
\* The forms and sizes of the objects of a world, and the floor, an object
\* of form "floor" with no size (null).
Forms == {"brick", "plank", "ball", "pyramid", "box", "table"}
Sizes == {"small", "large"}
Floor == [form |-> "floor", size |-> "null"]
Objects == [form : Forms, size : Sizes] \cup {Floor}

\* The chain without the test of a large object on a small one.
isOkSupportSizesIgnored(a, b) ==
    IF a.form = "ball" /\ b.form # "box" /\ b.form # "floor" THEN FALSE
    ELSE IF b.form = "ball" THEN FALSE
    ELSE IF b.form = "box" /\ b.size = a.size
            /\ (a.form = "pyramid" \/ a.form = "plank" \/ a.form = "box")
        THEN FALSE
    ELSE IF a.form = "box" /\ b.size = "small"
            /\ (b.form = "brick" \/ b.form = "pyramid")
        THEN FALSE
    ELSE IF a.form = "box" /\ a.size = "large" /\ b.form = "pyramid"
        THEN FALSE
    ELSE TRUE

\* isOkSupport(o1, o2): whether a can be supported by b.
isOkSupport(a, b) ==
    IF a.form = "ball" /\ b.form # "box" /\ b.form # "floor" THEN FALSE
    ELSE IF b.form = "ball" THEN FALSE
    ELSE IF a.size = "large" /\ b.size = "small" THEN FALSE
    ELSE IF b.form = "box" /\ b.size = a.size
            /\ (a.form = "pyramid" \/ a.form = "plank" \/ a.form = "box")
        THEN FALSE
    ELSE IF a.form = "box" /\ b.size = "small"
            /\ (b.form = "brick" \/ b.form = "pyramid")
        THEN FALSE
    ELSE IF a.form = "box" /\ a.size = "large" /\ b.form = "pyramid"
        THEN FALSE
    ELSE TRUE

\* The state before a call: its two arguments.
InitSupport ==
    /\ o1 \in Objects
    /\ o2 \in Objects
    /\ support = <<>>
    /\ rel = "ontop"
    /\ related = <<>>
    /\ SearchIdle
    /\ InterpretIdle
    /\ ListsIdle

\* The call.
CallIsOkSupport ==
    /\ support = <<>>
    /\ support' = <<isOkSupport(o1, o2)>>
    /\ UNCHANGED <<o1, o2, rel, related, searchVars, interpretVars, listVars>>

NextSupport == CallIsOkSupport

SpecSupport == InitSupport /\ [][NextSupport]_vars

\* ------------------------------------------------------------------------
\* Interpreter.isOkRelation (src/Graph.ts)
\* ------------------------------------------------------------------------
\* The relations of a command.
Relations ==
    {"ontop", "inside", "above", "under", "beside", "leftof", "rightof"}

\* The objects of state.objects, which the identifier "floor" is not in.
WorldObjects == [form : Forms, size : Sizes]

\* The chain without the test for a box under an object put on top.
isOkRelationOntopOfBox(a, b, r) ==
    IF b = Floor /\ r = "ontop" THEN TRUE
    ELSE IF b = Floor /\ r # "ontop" THEN FALSE
    ELSE IF r = "inside"
        THEN (IF b.form = "box" THEN isOkSupport(a, b) ELSE FALSE)
    ELSE IF r = "ontop" THEN isOkSupport(a, b)
    ELSE TRUE

\* isOkRelation(ident1, ident2, rel, state), a and b being
\* state.objects[ident1] and state.objects[ident2], and b being Floor when
\* ident2 is "floor".
isOkRelation(a, b, r) ==
    IF b = Floor /\ r = "ontop" THEN TRUE
    ELSE IF b = Floor /\ r # "ontop" THEN FALSE
    ELSE IF r = "inside"
        THEN (IF b.form = "box" THEN isOkSupport(a, b) ELSE FALSE)
    ELSE IF r = "ontop"
        THEN (IF b.form = "box" THEN FALSE ELSE isOkSupport(a, b))
    ELSE TRUE

\* The state before a call: its arguments.
InitRelation ==
    /\ o1 \in WorldObjects
    /\ o2 \in Objects
    /\ rel \in Relations
    /\ support = <<>>
    /\ related = <<>>
    /\ SearchIdle
    /\ InterpretIdle
    /\ ListsIdle

\* The call.
CallIsOkRelation ==
    /\ related = <<>>
    /\ related' = <<isOkRelation(o1, o2, rel)>>
    /\ UNCHANGED <<o1, o2, rel, support, searchVars, interpretVars, listVars>>

NextRelation == CallIsOkRelation

SpecRelation == InitRelation /\ [][NextRelation]_vars

\* ------------------------------------------------------------------------
\* The graph as the properties read it
\* ------------------------------------------------------------------------
Last(s) == s[Len(s)]

Min(S) == CHOOSE x \in S : \A y \in S : x <= y

\* There is an edge from a to b.
HasEdge(a, b) ==
    \E i \in 1..Len(outgoingEdges(a)) : outgoingEdges(a)[i].to = b

\* The cost of the edge from a to b.
CostOfEdge(a, b) ==
    LET es == outgoingEdges(a)
    IN es[CHOOSE i \in 1..Len(es) : es[i].to = b].cost

RECURSIVE PathCost(_)
\* The sum of the costs of the edges between consecutive nodes of a path.
PathCost(p) ==
    IF Len(p) < 2 THEN 0
    ELSE CostOfEdge(p[1], p[2]) + PathCost(Tail(p))

RECURSIVE ReachWithin(_, _)
\* The nodes reachable from the nodes of S by at most k edges.
ReachWithin(S, k) ==
    IF k = 0 THEN S
    ELSE ReachWithin(S \cup UNION {succ[n] : n \in S}, k - 1)

Reachable(n) == ReachWithin({n}, Cardinality(Nodes))

\* The cost of reaching a goal node from a node that reaches none.
Unreachable == 0 - 1

RECURSIVE CostWithin(_, _)
\* The least cost of a path of at most k edges from n to a goal node, or
\* Unreachable.
CostWithin(n, k) ==
    IF IsGoal(n) THEN 0
    ELSE IF k = 0 THEN Unreachable
    ELSE LET via == [m \in succ[n] |-> CostWithin(m, k - 1)]
             cs == {edgeCost + via[m] : m \in {x \in succ[n] : via[x] # Unreachable}}
         IN IF cs = {} THEN Unreachable ELSE Min(cs)

\* The true least cost from n to the nearest goal node.
TrueCost(n) == CostWithin(n, Cardinality(Nodes))

\* The heuristics never overestimates the true remaining cost.
Admissible ==
    \A n \in Nodes : TrueCost(n) # Unreachable => heuristics(n) <= TrueCost(n)

\* The heuristics obeys the triangle inequality on every edge.
Consistent ==
    \A n \in Nodes : \A m \in succ[n] :
        heuristics(n) <= CostOfEdge(n, m) + heuristics(m)

NonNegativeCosts ==
    \A n \in Nodes : \A m \in succ[n] : CostOfEdge(n, m) >= 0

\* ------------------------------------------------------------------------
\* Properties
\* ------------------------------------------------------------------------
\* C1: with non-negative edge costs and an admissible, consistent
\* heuristics, the cost of a returned result is the true least cost from
\* the start to the nearest goal node.
C1_Optimal ==
    (pc = "returned" /\ NonNegativeCosts /\ Admissible /\ Consistent)
        => result.cost = TrueCost(start)

\* C2: the cost of a returned result is the sum of the costs of the edges
\* of the returned path.
C2_CostIsSumOfEdgeCosts ==
    pc = "returned" => result.cost = PathCost(result.path)

C4_DegenerateStart ==
    (IsGoal(start) /\ NeverExpires /\ pc # "running")
        => (pc = "returned" /\ result = [path |-> <<start>>, cost |-> 0])

\* The loop ended on the clock: the open list still held entries.
TimedOut == pc = "thrown" /\ Len(open) > 0

\* The loop ended on the empty open list.
Exhausted == pc = "thrown" /\ Len(open) = 0

\* C5: a search that ends because the time ran out ends in an outcome that
\* differs from the outcome of a search that ends on the empty open list.
C5_FailuresDistinct ==
    TimedOut => thrown # OpenListEmptyMessage

\* C6: when the elapsed time read at the top of an iteration is greater
\* than or equal to the budget, the search ends in failure without
\* selecting or expanding a node; so a budget of zero or less fails before
\* any node is expanded.
C6_BudgetEnforced ==
    [][(pc = "running" /\ elapsed' >= timeout * MsPerSecond)
          => (pc' = "thrown" /\ q' = q /\ open' = open /\ closed' = closed)]_vars

\* No goal node can be reached from the start (the start included).
NoGoalReachable == Reachable(start) \cap goal = {}

\* C7: when no goal node is reachable from the start and the timeout never
\* expires, the search never returns a result, and when it ends it ends by
\* the throw on the empty open list.
C7_UnreachableGoalExhausts ==
    (NoGoalReachable /\ NeverExpires) =>
        /\ pc \in {"running", "thrown"}
        /\ result = NoResult
        /\ pc = "thrown" => (Len(open) = 0 /\ thrown = OpenListEmptyMessage)

\* The search has thrown after it expanded every node of a graph with a
\* goal node that the start does not reach.
C7_Witness ==
    /\ NoGoalReachable
    /\ NeverExpires
    /\ goal # {}
    /\ Exhausted
    /\ Len(closed) >= 3

\* C8: whenever the loop test fails, on the empty open list or on the
\* clock, the search throws and produces no result; every result produced
\* ends in a goal node.
C8_NoPartialResult ==
    [][/\ (pc = "running" /\ ~LoopCond(open, elapsed'))
            => (pc' = "thrown" /\ result' = NoResult)
       /\ pc' = "returned" => IsGoal(Last(result'.path))]_vars

\* The time ran out with nodes expanded and entries left on the open list,
\* and nothing was returned.
C8_Witness ==
    /\ TimedOut
    /\ Len(closed) >= 1
    /\ result = NoResult

\* C9: the search finds the goal only in the node it has just removed from
\* the open list: the goal node of a returned result is the node of q.
C9_GoalTestedOnPop ==
    pc = "returned" => Last(result.path) = q[1]

\* C10: the open list never holds two entries for the same node.
C10_FrontierUnique ==
    \A i \in 1..Len(open) : \A j \in 1..Len(open) :
        i # j => compareNodes(open[i][1], open[j][1]) # 0

\* ------------------------------------------------------------------------
\* Steps of the loop, as the properties of single iterations read them
\* ------------------------------------------------------------------------
\* This step removed an entry from the open list (it is an iteration).
Popped == pc = "running" /\ (closed' # closed \/ pc' # "running") /\ pc' # "thrown"

\* This step expanded every edge of the removed entry.
Expanded == pc = "running" /\ closed' # closed

\* s without its element at index.
Without(s, index) ==
    [i \in 1..(Len(s) - 1) |-> IF i < index THEN s[i] ELSE s[i + 1]]

\* The entries that were on the open list before the step and are left on
\* it, and the entries the step pushed.
Kept == SubSeq(open', 1, Len(open) - 1)
Pushed == SubSeq(open', Len(open), Len(open'))

\* g + heuristics(node) of an entry.
FOf(e) == e[2] + h[e[1]]

\* C11: the closed list never holds two entries for the same node: no node
\* is expanded twice.
C11_ExpandedOnce ==
    \A i \in 1..Len(closed) : \A j \in 1..Len(closed) :
        i # j => compareNodes(closed[i][1], closed[j][1]) # 0

\* C15: when q is expanded, the candidate for a successor next, with
\* g' = q.g + cost of the edge, is discarded exactly when the open list holds
\* an entry for next with g <= g' or next is on the closed list; otherwise
\* the entry (next, g', q) is pushed.
C15_Relaxation ==
    [][Expanded =>
         \A m \in succ[q'[1]] :
            LET g == q'[2] + CostOfEdge(q'[1], m)
                discarded == \A i \in 1..Len(Pushed) : Pushed[i][1] # m
            IN /\ discarded <=>
                     \/ \E j \in 1..Len(Kept) : Kept[j][1] = m /\ Kept[j][2] <= g
                     \/ \E j \in 1..Len(closed) : closed[j][1] = m
               /\ ~discarded =>
                     \E i \in 1..Len(Pushed) : Pushed[i] = <<m, g, q'[1]>>]_vars

C17_SelectsLeastF ==
    [][Popped =>
         \E index \in 1..Len(open) :
            /\ q' = open[index]
            /\ \A i \in 1..Len(open) : FOf(q') <= FOf(open[i])
            /\ Kept = Without(open, index)]_vars

\* The entry removed in the second iteration had a lower f than another
\* successor of the start, which is still on the open list.
C17_Witness ==
    /\ pc = "running"
    /\ Len(closed) = 2
    /\ q[3] = start
    /\ \E i \in 1..Len(open) : open[i][3] = start /\ FOf(open[i]) > FOf(q)

\* The highest index among the entries of s with the least f.
LastLeastF(s) ==
    CHOOSE i \in 1..Len(s) :
        /\ \A j \in 1..Len(s) : FOf(s[i]) <= FOf(s[j])
        /\ \A j \in (i + 1)..Len(s) : FOf(s[j]) > FOf(s[i])

\* C18: among the entries with the least f, an iteration removes the one
\* at the highest index of the open list, the one pushed last.
C18_TieBreakLast ==
    [][Popped =>
         /\ q' = open[LastLeastF(open)]
         /\ Kept = Without(open, LastLeastF(open))]_vars

\* The entry removed in the second iteration had the same f as another
\* successor of the start, which is still on the open list.
C18_Witness ==
    /\ pc = "running"
    /\ Len(closed) = 2
    /\ q[3] = start
    /\ \E i \in 1..Len(open) : open[i][3] = start /\ FOf(open[i]) = FOf(q)

\* Some goal node is reached from the start by a path of at least one edge.
GoalReachableByEdge ==
    ReachWithin(succ[start], Cardinality(Nodes)) \cap goal # {}

\* C19: with a timeout that never expires the loop ends after finitely
\* many iterations: every iteration but the last puts on the closed list an
\* entry whose node and g no earlier entry has, with a g of at most the
\* number of nodes; and the walk through the closed list ends.
C19_Terminates ==
    NeverExpires =>
        /\ \A i \in 1..Len(closed) :
              /\ closed[i][1] \in Nodes
              /\ closed[i][2] \in 0..Cardinality(Nodes)
              /\ \A j \in 1..Len(closed) :
                    (i # j /\ closed[i][1] = closed[j][1])
                        => closed[i][2] # closed[j][2]
        /\ pc # "diverged"

\* A search on a graph with a cycle of two nodes has ended after it
\* skipped the edge that closes the cycle.
C19_Witness ==
    /\ NeverExpires
    /\ pc \in {"returned", "thrown"}
    /\ Len(closed) >= 2
    /\ \E n \in Nodes : \E m \in succ[n] :
          /\ m # n
          /\ n \in succ[m]
          /\ \E i \in 1..Len(closed) : closed[i][1] = n
          /\ \E i \in 1..Len(closed) : closed[i][1] = m

\* C20: when a goal node is reachable from the start by at least one edge
\* and the timeout never expires, the search does not throw: as long as it
\* has not returned a result, the open list holds an entry to expand.
C20_Complete ==
    (GoalReachableByEdge /\ NeverExpires) =>
        /\ pc \in {"running", "returned"}
        /\ pc = "running" => Len(open) > 0
        /\ pc = "returned" => IsGoal(Last(result.path))

\* A result was returned for a goal that the first entries expanded do not
\* lead to.
C20_Witness ==
    /\ GoalReachableByEdge
    /\ NeverExpires
    /\ pc = "returned"
    /\ Len(closed) >= 3
    /\ \E i \in 1..Len(closed) : goal \cap ReachWithin({closed[i][1]}, Cardinality(Nodes)) = {}

\* ------------------------------------------------------------------------
\* Interpreter
\* ------------------------------------------------------------------------
\* The parses of the list on which interpretCommand returns, in the order
\* of the list.
Succeeding == SelectSeq(parses, LAMBDA p : ~command[p].throws)

\* C13: interpret returns exactly the parses on which interpretCommand
\* succeeded, in input order, each with its interpretation; it throws only
\* when none succeeded, and then the error of the first parse of the list
\* (`undefined` when the list is empty).
C13_Interpret ==
    /\ interpreted = "returned" =>
          /\ Len(Succeeding) > 0
          /\ Len(outcome) = Len(Succeeding)
          /\ \A i \in 1..Len(Succeeding) :
                /\ outcome[i].parse = Succeeding[i]
                /\ outcome[i].interpretation = command[Succeeding[i]].value
    /\ interpreted = "thrown" =>
          /\ Len(Succeeding) = 0
          /\ outcome = IF Len(parses) = 0
                       THEN UndefinedError
                       ELSE command[parses[1]].value

\* interpret has thrown on a list whose first and last parse fail with
\* different errors.
C13_Witness ==
    /\ interpreted = "thrown"
    /\ Len(parses) >= 2
    /\ command[parses[1]].value # command[parses[Len(parses)]].value

\* The laws that forbid b supporting a.
BallOffBoxOrFloor(a, b) == a.form = "ball" /\ b.form \notin {"box", "floor"}
OnBall(a, b) == b.form = "ball"
LargeOnSmall(a, b) == a.size = "large" /\ b.size = "small"
InBoxOfSameSize(a, b) ==
    b.form = "box" /\ a.size = b.size /\ a.form \in {"pyramid", "plank", "box"}
BoxOnSmallBrickOrPyramid(a, b) ==
    a.form = "box" /\ b.size = "small" /\ b.form \in {"brick", "pyramid"}
LargeBoxOnPyramid(a, b) ==
    a.form = "box" /\ a.size = "large" /\ b.form = "pyramid"
Forbidden(a, b) ==
    \/ BallOffBoxOrFloor(a, b)
    \/ OnBall(a, b)
    \/ LargeOnSmall(a, b)
    \/ InBoxOfSameSize(a, b)
    \/ BoxOnSmallBrickOrPyramid(a, b)
    \/ LargeBoxOnPyramid(a, b)

\* C14: isOkSupport(o1, o2) returns false exactly when one of the laws
\* forbids o2 supporting o1, and true for every other pair of objects.
C14_SupportLaws ==
    Len(support) > 0 => (support[1] <=> ~Forbidden(o1, o2))

\* isOkSupport has returned false for a pair that only the law on sizes
\* forbids.
C14_Witness ==
    /\ support = <<FALSE>>
    /\ LargeOnSmall(o1, o2)
    /\ ~BallOffBoxOrFloor(o1, o2)
    /\ ~OnBall(o1, o2)
    /\ ~InBoxOfSameSize(o1, o2)
    /\ ~BoxOnSmallBrickOrPyramid(o1, o2)
    /\ ~LargeBoxOnPyramid(o1, o2)

\* ------------------------------------------------------------------------
\* The lists of aStarSearch between iterations
\* ------------------------------------------------------------------------
\* C21: between iterations of the loop no node has an entry on the open
\* list and an entry on the closed list at the same time.
C21_OpenClosedDisjoint ==
    pc = "running" =>
        \A i \in 1..Len(open) : \A j \in 1..Len(closed) :
            compareNodes(open[i][1], closed[j][1]) # 0

\* The elements of s are pairwise different.
NoRepeat(s) == \A i \in 1..Len(s) : \A j \in 1..Len(s) : i # j => s[i] # s[j]

\* C22: when an entry is removed from the open list its parent, if it has
\* one, has an entry on the closed list, and the parent links followed
\* through the closed list from the entry end at the start entry without
\* passing a node twice.
C22_ParentChain ==
    [][Popped =>
          LET w == Walk(closed, q'[3], Len(closed) + 1)
              chain == <<q'[1]>> \o w.nodes
          IN /\ Truthy(q'[3]) => \E j \in 1..Len(closed) : closed[j][1] = q'[3]
             /\ w.ok
             /\ Last(chain) = start
             /\ NoRepeat(chain)]_vars

\* The number of parent links from entry e back to the start entry,
\* followed through the closed list cl; -1 when they do not end.
Links(cl, e) ==
    LET w == Walk(cl, e[3], Len(cl) + 1)
    IN IF w.ok THEN Len(w.nodes) ELSE 0 - 1

ZeroHeuristics == \A n \in Nodes : heuristics(n) = 0

\* The least number of edges of a path from the start to a goal node
\* other than the start itself.
LeastEdges ==
    Min({k \in 1..Cardinality(Nodes) : goal \cap ReachWithin({start}, k) # {}})

\* C24: with a heuristics that is 0 everywhere, every edge of cost 1 and a
\* start that is not a goal, the cost of a returned result is the least
\* number of edges from the start to a goal node.
C24_BreadthFirstOptimal ==
    (pc = "returned" /\ ZeroHeuristics /\ edgeCost = 1 /\ ~IsGoal(start))
        => result.cost = LeastEdges

\* A result of two edges was returned although the entry removed first
\* was not the one that leads to the goal.
C24_Witness ==
    /\ pc = "returned"
    /\ ZeroHeuristics
    /\ edgeCost = 1
    /\ ~IsGoal(start)
    /\ result.cost = 2
    /\ Len(closed) >= 2
    /\ Cardinality(succ[start]) >= 2

Range(s) == {s[i] : i \in 1..Len(s)}

RECURSIVE Power(_, _)
\* b to the power of e.
Power(b, e) == IF e = 0 THEN 1 ELSE b * Power(b, e - 1)

\* C26: getAllLists(elements, leng) ends by returning, for every list and
\* every leng >= 0, and returns exactly the sequences of length leng over
\* the elements, each once when the elements are distinct.
C26_AllLists ==
    /\ listing # "overflow"
    /\ listing = "returned" =>
          /\ Range(allLists) = [1..leng -> Range(elements)]
          /\ NoRepeat(elements) =>
                /\ NoRepeat(allLists)
                /\ Len(allLists) = Power(Len(elements), leng)

\* C27: isOkRelation is true for the floor exactly when the relation is
\* ontop; for inside exactly when the second object is a box that can
\* support the first; for ontop exactly when the second object is not a
\* box and can support the first; and for every other relation.
C27_RelationAllowed ==
    Len(related) > 0 =>
        (related[1] <=>
            IF o2 = Floor THEN rel = "ontop"
            ELSE CASE rel = "inside" -> o2.form = "box" /\ ~Forbidden(o1, o2)
                   [] rel = "ontop" -> o2.form # "box" /\ ~Forbidden(o1, o2)
                   [] OTHER -> TRUE)

\* isOkRelation has rejected a ball on top of a box that could hold it.
C27_Witness ==
    /\ related = <<FALSE>>
    /\ rel = "ontop"
    /\ o1.form = "ball"
    /\ o2.form = "box"
    /\ ~Forbidden(o1, o2)

====
